---- MODULE Spec2Model ----
(***************************************************************************)
(* Model of aten/src/ATen/native/TensorTransformations.cpp: the two CPU    *)
(* flip kernels (flip_old_cpu and flip_cpu_internal), the single-axis roll *)
(* fast path (roll_cpu) and rot90.                                         *)
(*                                                                         *)
(* A tensor is a view [sizes, strides, offset, esize, data] over its own   *)
(* storage `data`; strides and offset are in elements, esize in bytes.     *)
(* Axes are 0-based as in the source; position d of a TLA+ sequence holds  *)
(* axis d-1.                                                               *)
(***************************************************************************)
EXTENDS Integers, Sequences, FiniteSets, TLC

VARIABLES
  self,       \* the input tensor of the call
  call,       \* the public operation invoked and its arguments
  pc,         \* "idle" | "kernel" | "done"
  kern,       \* what a running flip kernel captured ([&] of the lambdas)
  next,       \* next[t]: the next linear index parallel task t handles
  out,        \* data of the output tensor, by element index
  wcount,     \* wcount[e]: number of stores to output element e
  writers,    \* writers[e]: the tasks that stored to output element e
  result,     \* what the call returned or raised
  allocated,  \* an output tensor was allocated (empty_like, empty, clone, cat)
  iters,      \* kernel loop iterations executed
  div0,       \* a division or remainder by zero was evaluated
  round       \* 0: no call yet, 1: first call, 2: the operation applied again

vars == <<self, call, pc, kern, next, out, wcount, writers, result,
          allocated, iters, div0, round>>

(***************************************************************************)
(* Bounds of the model.                                                    *)
(***************************************************************************)
MaxRank == 3
MaxDim == 3
MaxNumel == 6
NumThreads == 2
MaxShift == 4
MaxK == 4

(***************************************************************************)
(* Program constants.                                                      *)
(***************************************************************************)
dim_bitset_size == 64
flip_old_grain_size == 1000
index_parallel_grain_size == 3000
kLong_size == 8

\* A value no tensor element holds: what a read outside every buffer yields.
Indeterminate == 0 - 1
\* The content of freshly allocated, not yet written memory.
Uninit == 0 - 2

(***************************************************************************)
(* Arithmetic of the target language.                                      *)
(***************************************************************************)
Max(a, b) == IF a >= b THEN a ELSE b
Min(a, b) == IF a <= b THEN a ELSE b
Abs(a) == IF a < 0 THEN 0 - a ELSE a
divup(a, b) == (a + b - 1) \div b

\* C++ integer division and remainder truncate toward zero (b > 0 here).
CDiv(a, b) == IF a >= 0 THEN a \div b ELSE 0 - ((0 - a) \div b)
CRem(a, b) == a - b * CDiv(a, b)

RECURSIVE Prod(_)
Prod(s) == IF s = <<>> THEN 1 ELSE Head(s) * Prod(Tail(s))

RECURSIVE SumSeq(_)
SumSeq(s) == IF s = <<>> THEN 0 ELSE Head(s) + SumSeq(Tail(s))

(***************************************************************************)
(* The array/view library (collaborators of the source file).              *)
(***************************************************************************)
NoTensor == [sizes |-> <<>>, strides |-> <<>>, offset |-> 0, esize |-> 0,
             data |-> <<>>]

Ok(t) == [status |-> "ok", t |-> t]
Raise(e) == [status |-> e, t |-> NoTensor]

dim(t) == Len(t.sizes)
numel(t) == Prod(t.sizes)

\* Row-major strides of a dense allocation of the given shape.
RECURSIVE contiguous_strides(_)
contiguous_strides(sizes) ==
  IF sizes = <<>> THEN <<>>
  ELSE LET rest == contiguous_strides(Tail(sizes))
       IN <<(IF rest = <<>> THEN 1 ELSE Max(sizes[2], 1) * rest[1])>> \o rest

\* The coordinate of row-major linear index i in a shape.
Unravel(i, sizes) ==
  LET cs == contiguous_strides(sizes)
  IN [d \in 1..Len(sizes) |-> (i \div cs[d]) % Max(sizes[d], 1)]

Dot(c, strides) == SumSeq([d \in 1..Len(c) |-> c[d] * strides[d]])

\* Storage element e of a tensor's buffer (0-based).
ReadElem(t, e) == IF e + 1 \in DOMAIN t.data THEN t.data[e + 1] ELSE Indeterminate

\* The logical element of view t at coordinate c.
At(t, c) == ReadElem(t, t.offset + Dot(c, t.strides))

\* The logical contents of a view in row-major order.
Elems(t) == [i \in 1..numel(t) |-> At(t, Unravel(i - 1, t.sizes))]

\* Two views hold the same array: same shape, same element everywhere.
TEq(a, b) == a.sizes = b.sizes /\ Elems(a) = Elems(b)

\* at::empty / at::empty_like(contiguous): a fresh dense tensor.
empty(sizes, esize) ==
  [sizes |-> sizes, strides |-> contiguous_strides(sizes), offset |-> 0,
   esize |-> esize, data |-> [i \in 1..Prod(sizes) |-> Uninit]]

\* A dense tensor holding the given row-major contents.
dense(sizes, esize, elems) ==
  [sizes |-> sizes, strides |-> contiguous_strides(sizes), offset |-> 0,
   esize |-> esize, data |-> elems]

clone(t) == dense(t.sizes, t.esize, Elems(t))

as_strided(t, sizes, strides) == [t EXCEPT !.sizes = sizes, !.strides = strides]

\* maybe_wrap_dim: the axis is valid iff -rank <= d < rank.
dim_in_range(d, rank) == d >= 0 - rank /\ d < rank
wrap_dim(d, rank) == IF d < 0 THEN d + rank ELSE d

\* Tensor::transpose_: swaps two axes of the view's metadata.
transpose_(t, d0, d1) ==
  LET a == wrap_dim(d0, dim(t)) + 1
      b == wrap_dim(d1, dim(t)) + 1
      swap(s) == [s EXCEPT ![a] = s[b], ![b] = s[a]]
  IN [t EXCEPT !.sizes = swap(t.sizes), !.strides = swap(t.strides)]

\* Tensor::narrow(dim, start, length): a sub-view, or an error.
narrow(t, d, start, length) ==
  IF dim(t) = 0 \/ ~dim_in_range(d, dim(t)) THEN Raise("InvalidArgument")
  ELSE LET a == wrap_dim(d, dim(t)) + 1
           cur == t.sizes[a]
           s == IF start # cur /\ start < 0 THEN start + cur ELSE start
       IN IF (start # cur /\ ~(start >= 0 - cur /\ start < cur))
             \/ length < 0 \/ s > cur - length
          THEN Raise("InvalidArgument")
          ELSE Ok([t EXCEPT !.sizes[a] = length,
                            !.offset = t.offset + s * t.strides[a]])

\* at::cat({t0, t1}, dim) of two views that agree off the axis.
cat(t0, t1, d) ==
  LET a == wrap_dim(d, dim(t0)) + 1
      sizes == [t0.sizes EXCEPT ![a] = t0.sizes[a] + t1.sizes[a]]
      pick(c) == IF c[a] < t0.sizes[a] THEN At(t0, c)
                 ELSE At(t1, [c EXCEPT ![a] = c[a] - t0.sizes[a]])
  IN dense(sizes, t0.esize,
           [i \in 1..Prod(sizes) |-> pick(Unravel(i - 1, sizes))])

(***************************************************************************)
(* at::dim_list_to_bitset (ATen/WrapDimUtilsMulti.h): normalizes negative  *)
(* axes, rejects an axis outside [-rank, rank), a repeated axis and a rank *)
(* above the bitset width.  bits[d + 1] is the membership of axis d.       *)
(***************************************************************************)
RECURSIVE bitset_scan(_, _, _)
bitset_scan(dims, ndims, seen) ==
  IF dims = <<>> THEN [status |-> "ok", bits |-> seen]
  ELSE IF ~dim_in_range(Head(dims), ndims)
       THEN [status |-> "InvalidArgument", bits |-> seen]
  ELSE LET d == wrap_dim(Head(dims), ndims) + 1
       IN IF seen[d] THEN [status |-> "InvalidArgument", bits |-> seen]
          ELSE bitset_scan(Tail(dims), ndims, [seen EXCEPT ![d] = TRUE])

dim_list_to_bitset(dims, ndims) ==
  IF ndims > dim_bitset_size
  THEN [status |-> "InvalidArgument", bits |-> <<>>]
  ELSE bitset_scan(dims, ndims, [d \in 1..ndims |-> FALSE])

(***************************************************************************)
(* at::parallel_for(0, n, grain, f): the range is cut into at most         *)
(* NumThreads consecutive chunks of at least grain indices; a range        *)
(* shorter than the grain runs as one chunk.                               *)
(***************************************************************************)
parallel_ntasks(n, grain) ==
  IF n = 0 THEN 0
  ELSE IF n < grain THEN 1
  ELSE Min(NumThreads, divup(n, grain))

parallel_chunk(n, grain) ==
  IF n = 0 THEN 0 ELSE divup(n, parallel_ntasks(n, grain))

task_begin(k, t) == Min((t - 1) * k.chunk, k.n)
task_end(k, t) == Min(t * k.chunk, k.n)

(***************************************************************************)
(* flip_old_cpu: contiguous strides of the input's shape (lines 58-66).    *)
(***************************************************************************)
stride_contiguous_v(in_tensor) ==
  LET total_dims == dim(in_tensor)
      RECURSIVE sc(_)
      sc(i) == IF i = total_dims - 1 THEN 1
               ELSE Max(in_tensor.sizes[i + 2], 1) * sc(i + 1)
  IN [d \in 1..total_dims |-> sc(d - 1)]

(***************************************************************************)
(* flip_old_cpu_kernel, the body of the loop over i (lines 35-46): the     *)
(* source offset of output index i.                                        *)
(***************************************************************************)
RECURSIVE flip_old_loop(_, _, _, _)
flip_old_loop(k, d, cur_indices, dst_offset) ==
  IF d >= k.total_dims THEN dst_offset
  ELSE LET s == k.stride_contiguous_v[d + 1]
           q == IF s = 0 THEN 0 ELSE cur_indices \div s
           rem == cur_indices - q * s
           term == IF k.flip_dims_b[d + 1]
                   THEN (k.in_tensor.sizes[d + 1] - 1 - q) * k.in_tensor.strides[d + 1]
                   ELSE q * k.in_tensor.strides[d + 1]
       IN flip_old_loop(k, d + 1, rem, dst_offset + term)

flip_old_dst_offset(k, i) == flip_old_loop(k, 0, i, 0)

\* The divisions of line 41 for one index: is one of them by zero.
flip_old_divides_by_zero(k) ==
  \E d \in 1..k.total_dims : k.stride_contiguous_v[d] = 0

\* in_tensor_d[dst_offset] (line 46): data_ptr starts at the view's offset.
flip_old_value(k, i) ==
  ReadElem(k.in_tensor, k.in_tensor.offset + flip_old_dst_offset(k, i))

\* The output element line 46 stores to.
flip_old_store(i) == i

(***************************************************************************)
(* flip_cpu_internal: the flipped axes in ascending order (lines 218-223), *)
(* the restrided input (225-234) and the lookup tensors (97-124).          *)
(***************************************************************************)
RECURSIVE flip_dims_from(_, _)
flip_dims_from(bits, i) ==
  IF i >= Len(bits) THEN <<>>
  ELSE (IF bits[i + 1] THEN <<i>> ELSE <<>>) \o flip_dims_from(bits, i + 1)

flip_dims_of(bits) == flip_dims_from(bits, 0)

restrided_strides(input, flip_dims) ==
  [d \in 1..dim(input) |->
     IF \E j \in 1..Len(flip_dims) : flip_dims[j] = d - 1
     THEN 0 ELSE input.strides[d]]

build_index(num_dims, flip_dim, dim_size) ==
  empty([d \in 1..num_dims |-> IF d = flip_dim + 1 THEN dim_size ELSE 1],
        kLong_size)

index_entry(input, d, i) ==
  (input.sizes[d + 1] - i - 1) * input.strides[d + 1] * input.esize

build_indices_loop(input, flip_dims) ==
  [j \in 1..Len(flip_dims) |->
     LET d == flip_dims[j]
         dim_size == input.sizes[d + 1]
         index == build_index(dim(input), d, dim_size)
     IN [index EXCEPT !.data = [i \in 1..dim_size |-> index_entry(input, d, i - 1)]]]

(***************************************************************************)
(* The element-wise iterator (TensorIterator): operand 1 is the output it  *)
(* allocates, operand 2 the input, the others the lookup tensors; each     *)
(* operand has a byte pointer to its first element and byte strides, zero  *)
(* on an axis it is broadcast along.                                       *)
(***************************************************************************)
operand(t, shape) ==
  [t |-> t,
   base |-> t.offset * t.esize,
   bstrides |-> [d \in 1..Len(shape) |->
                   IF t.sizes[d] = 1 /\ shape[d] # 1 THEN 0
                   ELSE t.strides[d] * t.esize]]

make_index_iterator(input, indices) ==
  [shape |-> input.sizes,
   ops |-> <<operand(empty(input.sizes, input.esize), input.sizes),
             operand(input, input.sizes)>>
           \o [j \in 1..Len(indices) |-> operand(indices[j], input.sizes)]]

ntensors(iter) == Len(iter.ops)

\* A scalar read through a byte pointer into an operand's buffer.
ReadBytes(t, addr) ==
  IF addr >= 0 /\ addr % t.esize = 0 THEN ReadElem(t, addr \div t.esize)
  ELSE Indeterminate

\* The first index of the 1-D run the iterator hands to the loop for index i
\* of a range starting at begin: runs follow the innermost axis.
run_start(iter, begin, i) ==
  LET inner == iter.shape[Len(iter.shape)]
  IN Max(begin, i - (i % inner))

\* data[a] and strides[a] of the loop call for the run starting at rs.
loop_data(iter, rs, a) ==
  iter.ops[a + 1].base + Dot(Unravel(rs, iter.shape), iter.ops[a + 1].bstrides)
loop_stride(iter, a) == iter.ops[a + 1].bstrides[Len(iter.shape)]

(***************************************************************************)
(* Indexer::get (lines 149-155).  It reads indexers[0] before looking at   *)
(* num_indexers: with no lookup tensor that is data[2], past the end of    *)
(* the pointer array, and the word read through it is indeterminate (u).   *)
(***************************************************************************)
Indexer_get(iter, rs, idx, u) ==
  LET num_indexers == ntensors(iter) - 2
      word(j) == ReadBytes(iter.ops[j + 3].t,
                           loop_data(iter, rs, j + 2) + idx * loop_stride(iter, j + 2))
  IN IF num_indexers <= 0 THEN u
     ELSE SumSeq([j \in 1..num_indexers |-> word(j - 1)])

\* The words an indeterminate read may yield: zero, or a stray offset that
\* leads outside the input's buffer.
IndeterminateWords(iter) ==
  IF ntensors(iter) - 2 <= 0
  THEN {0, (Len(iter.ops[2].t.data) + 1) * iter.ops[2].t.esize}
  ELSE {0}

(***************************************************************************)
(* flip_cpu_kernel, the body of the loop (lines 172-176).                  *)
(***************************************************************************)
flip_cpu_dst_fixed(iter, rs, i) == loop_data(iter, rs, 0)

flip_cpu_dst(iter, rs, i) == loop_data(iter, rs, 0) + loop_stride(iter, 0) * i

flip_cpu_src(iter, rs, i, u) ==
  loop_data(iter, rs, 1) + loop_stride(iter, 1) * i + Indexer_get(iter, rs, i, u)

\* The output element the store of line 174 hits, for index i of a range
\* starting at begin.
flip_cpu_store(iter, begin, i) ==
  LET rs == run_start(iter, begin, i)
  IN flip_cpu_dst(iter, rs, i - rs) \div iter.ops[1].t.esize

flip_cpu_value(iter, begin, i, u) ==
  LET rs == run_start(iter, begin, i)
  IN ReadBytes(iter.ops[2].t, flip_cpu_src(iter, rs, i - rs, u))

(***************************************************************************)
(* What the kernels capture, and the calls run to completion on one thread *)
(* (a range handed to the loop as the single chunk [0, n)).                *)
(***************************************************************************)
NoIter == [shape |-> <<>>, ops |-> <<>>]

NoKern == [kind |-> "none", total_dims |-> 0, stride_contiguous_v |-> <<>>,
           flip_dims_b |-> <<>>, in_tensor |-> NoTensor, iter |-> NoIter,
           n |-> 0, chunk |-> 0, ntasks |-> 0]

\* flip_old_cpu, lines 53-66, and the kernel's captures, lines 26-33.
flip_old_ctx(in_tensor, bits, grain) ==
  [kind |-> "old", total_dims |-> dim(in_tensor),
   stride_contiguous_v |-> stride_contiguous_v(in_tensor),
   flip_dims_b |-> bits, in_tensor |-> in_tensor, iter |-> NoIter,
   n |-> numel(in_tensor),
   chunk |-> parallel_chunk(numel(in_tensor), grain),
   ntasks |-> parallel_ntasks(numel(in_tensor), grain)]

\* flip_cpu_internal, lines 214-236, and iter.for_each, line 179.
flip_index_ctx(input, bits, grain) ==
  LET flip_dims == flip_dims_of(bits)
      restrided_input ==
        as_strided(input, input.sizes, restrided_strides(input, flip_dims))
      indices == build_indices_loop(input, flip_dims)
  IN [kind |-> "index", total_dims |-> dim(input),
      stride_contiguous_v |-> <<>>, flip_dims_b |-> bits, in_tensor |-> input,
      iter |-> make_index_iterator(restrided_input, indices),
      n |-> numel(input),
      chunk |-> parallel_chunk(numel(input), grain),
      ntasks |-> parallel_ntasks(numel(input), grain)]

\* flip_old_cpu(self, dims) on one thread: the possible returns.
flip_old_cpu(t, dims) ==
  LET b == dim_list_to_bitset(dims, dim(t))
      k == flip_old_ctx(t, b.bits, flip_old_grain_size)
  IN IF b.status # "ok" THEN {Raise(b.status)}
     ELSE {Ok(dense(t.sizes, t.esize,
                    [i \in 1..numel(t) |-> flip_old_value(k, i - 1)]))}

\* flip_cpu_internal(self, dims) on one thread: the possible returns, one
\* for every choice of the indeterminate words.
flip_cpu_internal(t, dims) ==
  LET b == dim_list_to_bitset(dims, dim(t))
      k == flip_index_ctx(t, b.bits, index_parallel_grain_size)
  IN IF b.status # "ok" THEN {Raise(b.status)}
     ELSE {Ok(dense(t.sizes, t.esize,
                    [i \in 1..numel(t) |-> flip_cpu_value(k.iter, 0, i - 1, u[i])]))
           : u \in [1..numel(t) -> IndeterminateWords(k.iter)]}

(***************************************************************************)
(* Inputs: shapes, memory layouts and argument lists.                      *)
(***************************************************************************)
RECURSIVE SeqsUpTo(_, _)
SeqsUpTo(S, n) ==
  IF n = 0 THEN {<<>>}
  ELSE LET shorter == SeqsUpTo(S, n - 1)
       IN shorter \cup {Append(q, x) : q \in shorter, x \in S}

\* Shapes of rank 1..MaxRank with axes of size 0..MaxDim: the non-empty
\* ones up to MaxNumel elements, and those with one axis of size 0 around
\* such a shape.
NonZero(s) == [d \in 1..Len(s) |-> Max(s[d], 1)]
Shapes ==
  {s \in SeqsUpTo(0..MaxDim, MaxRank) :
     /\ Len(s) >= 1
     /\ Prod(NonZero(s)) <= MaxNumel
     /\ Cardinality({d \in 1..Len(s) : s[d] = 0}) <= 1}

\* A memory layout and the element size in bytes of the dtype it comes with.
Layouts == {<<"contiguous", 1>>, <<"transposed", 4>>, <<"narrowed", 8>>}

Reverse(s) == [d \in 1..Len(s) |-> s[Len(s) + 1 - d]]

\* Storage element e holds the value 10 + e: all elements differ.
Fill(n) == [i \in 1..n |-> 9 + i]

\* A dense tensor, a view with all axes permuted (x.T), or the view
\* narrow(last axis, 1, size) of a tensor one longer along that axis.
MakeInput(shape, layout, esize) ==
  IF layout = "contiguous" THEN dense(shape, esize, Fill(Prod(shape)))
  ELSE IF layout = "transposed"
  THEN [sizes |-> shape,
        strides |-> Reverse(contiguous_strides(Reverse(shape))),
        offset |-> 0, esize |-> esize, data |-> Fill(Prod(shape))]
  ELSE LET base == [shape EXCEPT ![Len(shape)] = shape[Len(shape)] + 1]
       IN [sizes |-> shape, strides |-> contiguous_strides(base),
           offset |-> 1, esize |-> esize, data |-> Fill(Prod(base))]

Inputs == {MakeInput(s, l[1], l[2]) : s \in Shapes, l \in Layouts}

\* Axis lists: every list of at most two axes from -(rank+1)..rank (valid,
\* negative, out of range, repeated), and the ascending list of every set
\* of axes.
RECURSIVE Ascending(_, _)
Ascending(S, d) ==
  IF d < 0 THEN <<>>
  ELSE Ascending(S, d - 1) \o (IF d \in S THEN <<d>> ELSE <<>>)

DimLists(rank) ==
  SeqsUpTo((0 - rank - 1)..rank, 2)
  \cup {Ascending(S, rank - 1) : S \in SUBSET (0..(rank - 1))}

\* The grain is a tuning parameter: the reference value, or any size from
\* one index to the whole range.
GrainSizes(n, reference) == (1..n) \cup {reference}

NoCall == [op |-> "none", dims |-> <<>>, shifts |-> <<>>, k |-> 0]

Init ==
  /\ self \in Inputs
  /\ call = NoCall
  /\ pc = "idle"
  /\ kern = NoKern
  /\ next = <<>>
  /\ out = <<>>
  /\ wcount = <<>>
  /\ writers = <<>>
  /\ result = Raise("none")
  /\ allocated = FALSE
  /\ iters = 0
  /\ div0 = FALSE
  /\ round = 0

(***************************************************************************)
(* Entry of a flip: validation, allocation, and the parallel kernel is     *)
(* launched.                                                               *)
(***************************************************************************)
Launch(k) ==
  /\ kern' = k
  /\ next' = [t \in 1..k.ntasks |-> task_begin(k, t)]
  /\ out' = [i \in 1..k.n |-> Uninit]
  /\ wcount' = [i \in 1..k.n |-> 0]
  /\ writers' = [i \in 1..k.n |-> {}]
  /\ allocated' = TRUE
  /\ pc' = "kernel"
  /\ UNCHANGED result

Fail(e) ==
  /\ result' = Raise(e)
  /\ pc' = "done"
  /\ UNCHANGED <<kern, next, out, wcount, writers, allocated>>

CallFlipOld(dims, grain) ==
  /\ pc = "idle"
  /\ call' = [op |-> "flip_old_cpu", dims |-> dims, shifts |-> <<>>, k |-> 0]
  /\ round' = 1
  /\ LET b == dim_list_to_bitset(dims, dim(self))
     IN IF b.status # "ok" THEN Fail(b.status)
        ELSE Launch(flip_old_ctx(self, b.bits, grain))
  /\ UNCHANGED <<self, iters, div0>>

CallFlipInternal(dims, grain) ==
  /\ pc = "idle"
  /\ call' = [op |-> "flip_cpu_internal", dims |-> dims, shifts |-> <<>>, k |-> 0]
  /\ round' = 1
  /\ LET b == dim_list_to_bitset(dims, dim(self))
     IN IF b.status # "ok" THEN Fail(b.status)
        ELSE Launch(flip_index_ctx(self, b.bits, grain))
  /\ UNCHANGED <<self, iters, div0>>

\* One iteration of the loop of flip_old_cpu_kernel (lines 34-47) in task t.
OldKernelStep(t) ==
  /\ pc = "kernel"
  /\ kern.kind = "old"
  /\ next[t] < task_end(kern, t)
  /\ LET i == next[t]
         e == flip_old_store(i)
     IN /\ out' = [out EXCEPT ![e + 1] = flip_old_value(kern, i)]
        /\ wcount' = [wcount EXCEPT ![e + 1] = @ + 1]
        /\ writers' = [writers EXCEPT ![e + 1] = @ \cup {t}]
        /\ next' = [next EXCEPT ![t] = i + 1]
  /\ div0' = (div0 \/ flip_old_divides_by_zero(kern))
  /\ iters' = iters + 1
  /\ UNCHANGED <<self, call, pc, kern, result, allocated, round>>

\* One iteration of the loop of flip_cpu_kernel (lines 172-176) in task t.
IndexKernelStep(t) ==
  /\ pc = "kernel"
  /\ kern.kind = "index"
  /\ next[t] < task_end(kern, t)
  /\ \E u \in IndeterminateWords(kern.iter) :
       LET i == next[t]
           e == flip_cpu_store(kern.iter, task_begin(kern, t), i)
       IN /\ out' = [out EXCEPT
                       ![e + 1] = flip_cpu_value(kern.iter, task_begin(kern, t), i, u)]
          /\ wcount' = [wcount EXCEPT ![e + 1] = @ + 1]
          /\ writers' = [writers EXCEPT ![e + 1] = @ \cup {t}]
          /\ next' = [next EXCEPT ![t] = i + 1]
  /\ iters' = iters + 1
  /\ UNCHANGED <<self, call, pc, kern, result, allocated, div0, round>>

\* The join of the parallel region and the return of the output tensor.
Join ==
  /\ pc = "kernel"
  /\ \A t \in 1..kern.ntasks : next[t] = task_end(kern, t)
  /\ result' = Ok(dense(self.sizes, self.esize, out))
  /\ pc' = "done"
  /\ UNCHANGED <<self, call, kern, next, out, wcount, writers, allocated,
                 iters, div0, round>>

\* The same flip applied to the tensor the first flip returned.
FlipAgain ==
  /\ pc = "done"
  /\ round = 1
  /\ call.op \in {"flip_old_cpu", "flip_cpu_internal"}
  /\ result.status = "ok"
  /\ result' \in (IF call.op = "flip_old_cpu"
                  THEN flip_old_cpu(result.t, call.dims)
                  ELSE flip_cpu_internal(result.t, call.dims))
  /\ round' = 2
  /\ UNCHANGED <<self, call, pc, kern, next, out, wcount, writers, allocated,
                 iters, div0>>

(***************************************************************************)
(* roll_cpu (lines 254-273).                                               *)
(***************************************************************************)
roll_is_empty_unguarded(t) == FALSE

\* Line 259: the guard before the remainder by the axis size.
roll_is_empty(t) == numel(t) = 0

roll_start_uncorrected(size, shift) == CRem(size - shift, size)

roll_start_forward(size, shift) ==
  LET start == CRem(size + shift, size)
  IN IF start < 0 THEN start + size ELSE start

\* Lines 264-269.
roll_start(size, shift) ==
  LET start == CRem(size - shift, size)
  IN IF start < 0 THEN start + size ELSE start

roll_cpu(t, shifts, dims) ==
  IF Len(dims) # 1 \/ Len(shifts) # 1 THEN Raise("roll_common")
  ELSE IF roll_is_empty(t) THEN Ok(clone(t))
  ELSE IF ~dim_in_range(dims[1], dim(t)) THEN Raise("InvalidArgument")
  ELSE LET d == dims[1]
           size == t.sizes[wrap_dim(d, dim(t)) + 1]
       IN IF size = 0 THEN Raise("DivisionByZero")
          ELSE LET start == roll_start(size, shifts[1])
                   t0 == narrow(t, d, start, size - start)
                   t1 == narrow(t, d, 0, start)
               IN IF t0.status # "ok" THEN t0
                  ELSE IF t1.status # "ok" THEN t1
                  ELSE Ok(cat(t0.t, t1.t, d))

(***************************************************************************)
(* rot90 (lines 275-308).  self.flip is the flip of the CPU backend,       *)
(* flip_cpu (lines 182-211), whose stub runs flip_cpu_kernel.              *)
(***************************************************************************)
flip_cpu(t, dims) == flip_cpu_internal(t, dims)

rot90_dims_differ_only(dims, total_dims) == dims[1] # dims[2]

\* Line 284.
rot90_dims_differ(dims, total_dims) ==
  dims[1] # dims[2] /\ Abs(dims[1] - dims[2]) # total_dims

rot90_k_truncated(k) == CRem(k, 4)

\* Line 296.
rot90_k(k) == CRem(4 + CRem(k, 4), 4)

Transposed(rs, d0, d1) ==
  {IF r.status = "ok" THEN Ok(transpose_(r.t, d0, d1)) ELSE r : r \in rs}

rot90(t, k, dims) ==
  LET total_dims == dim(t)
      total_rot_dims == Len(dims)
  IN IF total_rot_dims # 2 THEN {Raise("InvalidArgument")}
     ELSE IF ~(total_dims >= 2) THEN {Raise("InvalidArgument")}
     ELSE IF ~rot90_dims_differ(dims, total_dims) THEN {Raise("InvalidArgument")}
     ELSE IF ~(dims[1] < total_dims /\ dims[1] >= 0 - total_dims)
          THEN {Raise("InvalidArgument")}
     ELSE IF ~(dims[2] < total_dims /\ dims[2] >= 0 - total_dims)
          THEN {Raise("InvalidArgument")}
     ELSE LET kk == rot90_k(k)
          IN IF kk = 1 THEN Transposed(flip_cpu(t, <<dims[2]>>), dims[1], dims[2])
             ELSE IF kk = 2 THEN flip_cpu(t, dims)
             ELSE IF kk = 3 THEN Transposed(flip_cpu(t, <<dims[1]>>), dims[1], dims[2])
             ELSE {Ok(clone(t))}

ShiftLists ==
  {<<>>, <<1, 1>>} \cup {<<s>> : s \in (0 - MaxShift)..MaxShift}

RollDimLists(rank) ==
  {d \in DimLists(rank) : Len(d) <= 1} \cup {<<0, 0>>}

KValues == (0 - MaxK)..MaxK

Returned(r) ==
  /\ result' = r
  /\ allocated' = (r.status = "ok")
  /\ div0' = (r.status = "DivisionByZero")
  /\ pc' = "done"
  /\ UNCHANGED <<self, kern, next, out, wcount, writers, iters>>

CallRoll(shifts, dims) ==
  /\ pc = "idle"
  /\ call' = [op |-> "roll_cpu", dims |-> dims, shifts |-> shifts, k |-> 0]
  /\ round' = 1
  /\ Returned(roll_cpu(self, shifts, dims))

CallRot90(k, dims) ==
  /\ pc = "idle"
  /\ call' = [op |-> "rot90", dims |-> dims, shifts |-> <<>>, k |-> k]
  /\ round' = 1
  /\ \E r \in rot90(self, k, dims) : Returned(r)

\* The same rotation applied to the tensor the first rotation returned.
Rot90Again ==
  /\ pc = "done"
  /\ round = 1
  /\ call.op = "rot90"
  /\ result.status = "ok"
  /\ result' \in rot90(result.t, call.k, call.dims)
  /\ round' = 2
  /\ UNCHANGED <<self, call, pc, kern, next, out, wcount, writers, allocated,
                 iters, div0>>

DimListsOfRank == [r \in 1..MaxRank |-> DimLists(r)]
RollDimListsOfRank == [r \in 1..MaxRank |-> RollDimLists(r)]

FlipNext ==
  \/ /\ pc = "idle"
     /\ \E dims \in DimListsOfRank[dim(self)],
           grain \in GrainSizes(numel(self), flip_old_grain_size) :
          CallFlipOld(dims, grain)
  \/ /\ pc = "idle"
     /\ \E dims \in DimListsOfRank[dim(self)],
           grain \in GrainSizes(numel(self), index_parallel_grain_size) :
          CallFlipInternal(dims, grain)
  \/ /\ pc = "kernel"
     /\ \E t \in 1..kern.ntasks : OldKernelStep(t)
  \/ /\ pc = "kernel"
     /\ \E t \in 1..kern.ntasks : IndexKernelStep(t)
  \/ Join

RollNext ==
  /\ pc = "idle"
  /\ \E shifts \in ShiftLists, dims \in RollDimListsOfRank[dim(self)] :
       CallRoll(shifts, dims)

RotNext ==
  /\ pc = "idle"
  /\ \E k \in KValues, dims \in DimListsOfRank[dim(self)] : CallRot90(k, dims)

Next == FlipNext \/ RollNext \/ RotNext

\* Every operation, called once on every input.
Spec == Init /\ [][Next]_vars

\* The two flips alone.
SpecFlip == Init /\ [][FlipNext]_vars

NextFlipTwice == FlipNext \/ FlipAgain

\* The two flips, each applied once or twice.
SpecFlipTwice == Init /\ [][NextFlipTwice]_vars

NextFlipRoll == FlipNext \/ RollNext

\* The two flips and roll.
SpecFlipRoll == Init /\ [][NextFlipRoll]_vars

\* Roll alone.
SpecRoll == Init /\ [][RollNext]_vars

\* rot90 alone.
SpecRot == Init /\ [][RotNext]_vars

NextRotTwice == RotNext \/ Rot90Again

\* rot90, applied once or twice.
SpecRotTwice == Init /\ [][NextRotTwice]_vars

(***************************************************************************)
(* Vocabulary of the properties.                                           *)
(***************************************************************************)
IsFlip == call.op \in {"flip_old_cpu", "flip_cpu_internal"}
IsSingleRoll == call.op = "roll_cpu" /\ Len(call.dims) = 1 /\ Len(call.shifts) = 1
Returned1 == pc = "done" /\ round = 1

AxesInRange(dims, rank) == \A j \in 1..Len(dims) : dim_in_range(dims[j], rank)
AxesDistinct(dims, rank) ==
  \A i, j \in 1..Len(dims) :
    i # j => wrap_dim(dims[i], rank) # wrap_dim(dims[j], rank)

\* Membership of each axis in the list, negatives counted from the end.
Flipped(dims, rank) ==
  [d \in 1..rank |-> \E j \in 1..Len(dims) : wrap_dim(dims[j], rank) = d - 1]

\* The array whose element at c is t's element at c mirrored on the axes
\* of bits.
Mirrored(t, bits) ==
  LET m(c) == [d \in 1..Len(c) |-> IF bits[d] THEN t.sizes[d] - 1 - c[d] ELSE c[d]]
  IN dense(t.sizes, t.esize,
           [i \in 1..numel(t) |-> At(t, m(Unravel(i - 1, t.sizes)))])

\* Two returns agree: both raise the same error, or both return the same
\* array.
Same(r1, r2) ==
  /\ r1.status = r2.status
  /\ r1.status = "ok" => TEq(r1.t, r2.t)

\* r is a return of the flip op(t, dims) run on a single thread: for the
\* restride-and-gather kernel, element by element over the words an
\* indeterminate read may yield.
OneThreadReturn(r, op, t, dims) ==
  IF op = "flip_old_cpu" THEN r \in flip_old_cpu(t, dims)
  ELSE LET b == dim_list_to_bitset(dims, dim(t))
           k == flip_index_ctx(t, b.bits, index_parallel_grain_size)
       IN IF b.status # "ok" THEN r = Raise(b.status)
          ELSE /\ r.status = "ok"
               /\ r.t.sizes = t.sizes
               /\ \A i \in 1..numel(t) :
                    \E u \in IndeterminateWords(k.iter) :
                      Elems(r.t)[i] = flip_cpu_value(k.iter, 0, i - 1, u)

\* C1: whenever the restride-and-gather kernel has returned, its output has
\* the shape and, at every coordinate, the element that the
\* coordinate-decomposition kernel produces for the same input and axes,
\* for every axis subset, the empty one included.
C1_KernelsAgree ==
  (Returned1 /\ call.op = "flip_cpu_internal")
    => \E r \in flip_old_cpu(self, call.dims) : Same(result, r)

\* C1, away from the empty axis list: with at least one axis flipped the
\* two kernels agree.
C1_KernelsAgreeSomeAxis ==
  (Returned1 /\ call.op = "flip_cpu_internal" /\ call.dims # <<>>)
    => \E r \in flip_old_cpu(self, call.dims) : Same(result, r)

\* C2: a flip applied to the result of the same flip returns an array of
\* the input's shape holding the input's element at every coordinate.
C2_Involution ==
  (pc = "done" /\ round = 2 /\ IsFlip)
    => (result.status = "ok" /\ TEq(result.t, self))

\* C3: the element a flip returns at coordinate c is the input's logical
\* element at c mirrored on the flipped axes, whatever the input's strides;
\* that is also the result of the flip on a dense copy of the input.
C3_LayoutIndependent ==
  (Returned1 /\ IsFlip /\ result.status = "ok")
    => /\ TEq(result.t, Mirrored(self, Flipped(call.dims, dim(self))))
       /\ \A r \in (IF call.op = "flip_old_cpu"
                    THEN flip_old_cpu(clone(self), call.dims)
                    ELSE flip_cpu_internal(clone(self), call.dims)) :
            Same(result, r)

\* C3, away from the empty axis list.
C3_LayoutIndependentSomeAxis ==
  (Returned1 /\ IsFlip /\ result.status = "ok" /\ call.dims # <<>>)
    => TEq(result.t, Mirrored(self, Flipped(call.dims, dim(self))))

\* The axis a single-axis roll shifts along (1-based position) and its size.
RollAxis == wrap_dim(call.dims[1], dim(self)) + 1
RollSize == self.sizes[RollAxis]
RollCase ==
  /\ Returned1 /\ IsSingleRoll
  /\ numel(self) > 0
  /\ dim_in_range(call.dims[1], dim(self))

\* C4: a single-axis roll of a non-empty array returns the same array for
\* shift and for shift + size of the axis, for positive, zero and negative
\* shifts, and a roll by 0 returns the input.
C4_RollPeriodic ==
  RollCase =>
    /\ result.status = "ok"
    /\ Same(result, roll_cpu(self, <<call.shifts[1] + RollSize>>, call.dims))
    /\ call.shifts[1] = 0 => TEq(result.t, self)

\* A roll by a negative shift along an axis of three elements has returned.
C4_Witness ==
  /\ RollCase /\ result.status = "ok"
  /\ call.shifts[1] < 0 /\ RollSize = 3

\* C10: in the single-axis roll of a non-empty array the start is in
\* [0, size) and is (size - shift) mod size; the result is the input's
\* slice [start, size) followed by its slice [0, start) along the axis, so
\* the element at position j along the axis is the input's element at
\* position (j - shift) mod size, all other coordinates unchanged.
C10_RollStartAndResult ==
  RollCase =>
    LET shift == call.shifts[1]
        start == roll_start(RollSize, shift)
        cs == {Unravel(i - 1, self.sizes) : i \in 1..numel(self)}
    IN /\ start \in 0..(RollSize - 1)
       /\ start = (RollSize - shift) % RollSize
       /\ result.status = "ok"
       /\ result.t.sizes = self.sizes
       /\ \A c \in cs :
            /\ At(result.t, c)
                 = At(self, [c EXCEPT ![RollAxis] = (c[RollAxis] - shift) % RollSize])
            /\ At(result.t, c)
                 = IF c[RollAxis] < RollSize - start
                   THEN At(self, [c EXCEPT ![RollAxis] = c[RollAxis] + start])
                   ELSE At(self, [c EXCEPT ![RollAxis] = c[RollAxis] - (RollSize - start)])

\* A roll by more than the axis size, where size - shift is negative, has
\* returned for an array of rank two or more.
C10_Witness ==
  /\ RollCase /\ result.status = "ok"
  /\ call.shifts[1] > RollSize /\ RollSize >= 2 /\ dim(self) >= 2

\* C9: a flip by either kernel, or a single-axis roll, of an array with no
\* element, called with valid axes, returns an array of the input's shape
\* with no element and raises nothing; no division or remainder by zero is
\* evaluated and no kernel loop iteration runs.
C9_EmptyInput ==
  (numel(self) = 0 /\ (IsFlip \/ IsSingleRoll)
     /\ AxesInRange(call.dims, dim(self)) /\ AxesDistinct(call.dims, dim(self)))
    => /\ ~div0
       /\ iters = 0
       /\ pc = "done" => /\ result.status = "ok"
                         /\ result.t.sizes = self.sizes
                         /\ numel(result.t) = 0

\* A roll along the axis of size 0 has returned.
C9_Witness ==
  /\ Returned1 /\ IsSingleRoll /\ result.status = "ok"
  /\ dim_in_range(call.dims[1], dim(self))
  /\ RollSize = 0

\* C8: flip, rot90 and single-axis roll called with an axis outside
\* [-rank, rank) raise InvalidArgument with no output allocated and no
\* kernel iteration run, for every input, the empty ones included.
C8_AxisOutOfRange ==
  (Returned1 /\ (IsFlip \/ IsSingleRoll \/ call.op = "rot90")
     /\ ~AxesInRange(call.dims, dim(self)))
    => (result.status = "InvalidArgument" /\ ~allocated /\ iters = 0)

\* C8, for arrays with at least one element.
C8_AxisOutOfRangeNonEmpty ==
  (Returned1 /\ (IsFlip \/ IsSingleRoll \/ call.op = "rot90")
     /\ ~AxesInRange(call.dims, dim(self)) /\ numel(self) > 0)
    => (result.status = "InvalidArgument" /\ ~allocated /\ iters = 0)

\* The rotation plane is degenerate.
RotDegenerate ==
  \/ dim(self) < 2
  \/ Len(call.dims) # 2
  \/ call.dims[1] = call.dims[2]
  \/ Abs(call.dims[1] - call.dims[2]) = dim(self)

\* C6: rot90 with rank below 2, a number of axes other than 2, equal axes
\* or axes rank apart raises InvalidArgument and flips, transposes and
\* copies nothing; when rot90 returns, its two axes normalized by rank are
\* different and both in [0, rank).
C6_RotValidation ==
  (Returned1 /\ call.op = "rot90")
    => /\ RotDegenerate
            => (result.status = "InvalidArgument" /\ result.t = NoTensor
                /\ ~allocated /\ iters = 0)
       /\ result.status = "ok"
            => /\ Len(call.dims) = 2 /\ dim(self) >= 2
               /\ AxesInRange(call.dims, dim(self))
               /\ wrap_dim(call.dims[1], dim(self)) # wrap_dim(call.dims[2], dim(self))
               /\ \A j \in 1..2 : wrap_dim(call.dims[j], dim(self)) \in 0..(dim(self) - 1)

\* rot90 has raised for two different valid axes that name the same axis.
C6_Witness ==
  /\ Returned1 /\ call.op = "rot90" /\ Len(call.dims) = 2 /\ dim(self) >= 2
  /\ AxesInRange(call.dims, dim(self))
  /\ Abs(call.dims[1] - call.dims[2]) = dim(self)
  /\ result.status = "InvalidArgument"

\* C5: rot90 by k returns what rot90 by k mod 4 in
\* [0, 4) returns, negative k included; and rot90 by 1 applied twice
\* returns what rot90 by 2 returns, which is the flip along both axes.
C5_RotGroupLaw ==
  (pc = "done" /\ call.op = "rot90")
    => /\ round = 1
            => \E r \in rot90(self, call.k % 4, call.dims) : Same(result, r)
       /\ (round = 2 /\ call.k = 1)
            => /\ \E r \in rot90(self, 2, call.dims) : Same(result, r)
               /\ \E r \in flip_old_cpu(self, call.dims) : Same(result, r)
               /\ result.status = "ok"
               /\ TEq(result.t, Mirrored(self, Flipped(call.dims, dim(self))))

\* rot90 by a negative k that is no multiple of 4 has returned a rotated
\* array of at least two elements.
C5_Witness ==
  /\ Returned1 /\ call.op = "rot90" /\ result.status = "ok"
  /\ call.k < 0 /\ call.k % 4 # 0 /\ numel(self) >= 2

\* No output element is stored to twice or by two tasks, and only by the
\* task whose chunk holds it; at the join every element has been stored to
\* exactly once.
WrittenOnce ==
  /\ \A e \in 1..kern.n :
       /\ wcount[e] <= 1
       /\ Cardinality(writers[e]) = wcount[e]
       /\ \A t \in writers[e] :
            task_begin(kern, t) <= e - 1 /\ e - 1 < task_end(kern, t)
  /\ pc = "done" => \A e \in 1..kern.n : wcount[e] = 1

FlipKernelRan == round = 1 /\ IsFlip /\ pc \in {"kernel", "done"} /\ kern.kind # "none"

====
